---- MODULE Spec2Model ----
(***************************************************************************)
(* Model of the MEMENTO camera controller (src/code.py): the main loop,    *)
(* the capture modes, the timelapse scheduler and the gallery browser.     *)
(*                                                                         *)
(* The module-level globals of code.py and the attributes of the pycam     *)
(* object the code reads and writes are the VARIABLES.  Every handler of   *)
(* code.py is an operator from a state record (the globals) and the        *)
(* handler's inputs (button edges, the answers of the operating system and *)
(* of the camera library) to the state record after the handler; an action *)
(* applies one handler of the main loop to the current state.              *)
(*                                                                         *)
(* File names are sequences of code points, so that lower(), endswith()    *)
(* and the ordering used by list.sort() are computed, not assumed.         *)
(***************************************************************************)
EXTENDS Integers, Sequences, FiniteSets, TLC

VARIABLES
    pc,                  \* position of the main loop (src/code.py:908-922)
    gallery_mode,        \* global gallery_mode
    gallery_images,      \* global gallery_images
    gallery_index,       \* global gallery_index
    gallery_zoom_level,  \* global gallery_zoom_level
    has_gallery_group,   \* hasattr(pycam, "gallery_group")
    gallery_group,       \* the tile grids held by pycam.gallery_group
    jpeg_decoder,        \* global jpeg_decoder is not None
    curr_setting,        \* global curr_setting
    mode,                \* pycam.mode (index into the mode texts)
    timelapse_rate,      \* pycam.timelapse_rate (index into timelapse_rates)
    timelapse_remaining, \* global timelapse_remaining (None or a number)
    timelapse_timestamp, \* global timelapse_timestamp (None or a number)
    exposure_auto,       \* camera exposure under automatic control
    gain_auto,           \* camera gain under automatic control
    wb_auto,             \* camera white balance under automatic control
    last_frame,          \* contents of the global last_frame bitmap
    stop_motion_frame,   \* pycam.stop_motion_frame
    now,                 \* time.time()
    listed,              \* what os.listdir('/sd') answered to the last handler
    log,                 \* what the last handler did, in order
    last_load,           \* the last decode attempt of the last handler
    result,              \* what the last capture action returned
    shutter_value,       \* pycam.shutter_button.value (TRUE: not pressed)
    gif                  \* the recording of capture_animated_gif

vars == <<pc, gallery_mode, gallery_images, gallery_index, gallery_zoom_level,
          has_gallery_group, gallery_group, jpeg_decoder, curr_setting, mode,
          timelapse_rate, timelapse_remaining, timelapse_timestamp,
          exposure_auto, gain_auto, wb_auto, last_frame, stop_motion_frame,
          now, listed, log, last_load, result, shutter_value, gif>>

(***************************************************************************)
(* Bounds of the model.                                                    *)
(***************************************************************************)
\* time.time() runs from 0 to MaxTime
MaxTime == 2
\* pycam.stop_motion_frame counts up to MaxStopFrames
MaxStopFrames == 1
\* the sensor delivers the frames 1..MaxFrame
MaxFrame == 1
\* a recording is followed up to MaxGifFrames frames
MaxGifFrames == 17
\* native JPEG sizes drawn for the decode specification: MaxDim + 1 sizes,
\* from the smallest picture on, on each axis
MaxDim == 9

(***************************************************************************)
(* Python values.                                                          *)
(***************************************************************************)
None == <<>>

Some(x) == <<x>>

Range(f) == {f[i] : i \in DOMAIN f}

(***************************************************************************)
(* str.lower(), str.endswith() and the order of str, on code points.       *)
(***************************************************************************)
LowerChar(c) == IF c >= 65 /\ c <= 90 THEN c + 32 ELSE c

lower(str) == [i \in 1..Len(str) |-> LowerChar(str[i])]

endswith(str, suffix) ==
    /\ Len(str) >= Len(suffix)
    /\ SubSeq(str, Len(str) - Len(suffix) + 1, Len(str)) = suffix

\* the order list.sort() uses on str: code point by code point, a proper
\* prefix first
RECURSIVE StrLess(_, _)
StrLess(a, b) ==
    IF Len(b) = 0 THEN FALSE
    ELSE IF Len(a) = 0 THEN TRUE
    ELSE IF a[1] # b[1] THEN a[1] < b[1]
    ELSE StrLess(Tail(a), Tail(b))

RECURSIVE InsertSorted(_, _)
InsertSorted(x, sorted) ==
    IF Len(sorted) = 0 THEN <<x>>
    ELSE IF StrLess(x, sorted[1]) THEN <<x>> \o sorted
    ELSE <<sorted[1]>> \o InsertSorted(x, Tail(sorted))

\* list.sort(): a stable sort, here by insertion from the back
RECURSIVE sort(_)
sort(list) ==
    IF Len(list) = 0 THEN <<>>
    ELSE InsertSorted(list[1], sort(Tail(list)))

ExtJpg == <<46, 106, 112, 103>>

ExtJpeg == <<46, 106, 112, 101, 103>>

ExtGif == <<46, 103, 105, 102>>

(***************************************************************************)
(* The file names the model's storage can hold.                            *)
(***************************************************************************)
\* "B.JPG"
NameBJPG == <<66, 46, 74, 80, 71>>

\* "a.gif"
NameAgif == <<97, 46, 103, 105, 102>>

\* "c.jpeg"
NameCjpeg == <<99, 46, 106, 112, 101, 103>>

\* "d.txt"
NameDtxt == <<100, 46, 116, 120, 116>>

\* "e.jpg"
NameEjpg == <<101, 46, 106, 112, 103>>

\* ".GIF"
NameDotGIF == <<46, 71, 73, 70>>

\* "a.gif.txt"
NameAgifTxt == <<97, 46, 103, 105, 102, 46, 116, 120, 116>>

\* the directory of the scan specification
ScanNames == {NameBJPG, NameAgif, NameCjpeg, NameDtxt, NameEjpg,
              NameDotGIF, NameAgifTxt}

\* the directory of the control-loop specification
DirNames == {NameBJPG, NameAgif, NameCjpeg, NameDtxt}

(***************************************************************************)
(* What the storage holds under each name: the format of the data, whether *)
(* the decoder accepts it, its native size and what os.stat() reports.     *)
(***************************************************************************)
Content(format, ok, w, h, size) ==
    [format |-> format, ok |-> ok, w |-> w, h |-> h, size |-> size]

FileContent(filename) ==
    IF filename = NameBJPG THEN Content("jpeg", TRUE, 640, 480, Some(40960))
    ELSE IF filename = NameAgif THEN Content("gif", TRUE, 96, 64, Some(2048))
    ELSE IF filename = NameCjpeg THEN Content("jpeg", FALSE, 0, 0, Some(100))
    ELSE Content("other", FALSE, 0, 0, None)

(***************************************************************************)
(* The state record the handlers work on: the globals of code.py and the   *)
(* pycam attributes, plus fault: an exception no handler caught is         *)
(* propagating to main().                                                  *)
(***************************************************************************)
\* no recording: no file, no frame, the mode label as the library set it
NoGif ==
    [file |-> "none", i |-> 0, frames |-> <<>>, blitted |-> <<>>,
     closes |-> 0, label |-> "mode"]

NoLoad ==
    [file |-> <<>>, zoom |-> 0, native |-> <<0, 0>>, bitmap |-> None,
     shown |-> "none"]

Cur ==
    [gallery_mode |-> gallery_mode, gallery_images |-> gallery_images,
     gallery_index |-> gallery_index,
     gallery_zoom_level |-> gallery_zoom_level,
     has_gallery_group |-> has_gallery_group, gallery_group |-> gallery_group,
     jpeg_decoder |-> jpeg_decoder, curr_setting |-> curr_setting,
     mode |-> mode, timelapse_rate |-> timelapse_rate,
     timelapse_remaining |-> timelapse_remaining,
     timelapse_timestamp |-> timelapse_timestamp,
     exposure_auto |-> exposure_auto, gain_auto |-> gain_auto,
     wb_auto |-> wb_auto, last_frame |-> last_frame,
     stop_motion_frame |-> stop_motion_frame, now |-> now,
     listed |-> <<>>, log |-> <<>>, last_load |-> NoLoad, result |-> "none",
     shutter_value |-> shutter_value, gif |-> gif,
     fault |-> FALSE]

\* the handler has run: its state record becomes the state, and an uncaught
\* exception ends main()
Becomes(after, next_pc) ==
    \E s \in {after} :
       /\ pc' = IF s.fault THEN "crashed" ELSE next_pc
       /\ gallery_mode' = s.gallery_mode
       /\ gallery_images' = s.gallery_images
       /\ gallery_index' = s.gallery_index
       /\ gallery_zoom_level' = s.gallery_zoom_level
       /\ has_gallery_group' = s.has_gallery_group
       /\ gallery_group' = s.gallery_group
       /\ jpeg_decoder' = s.jpeg_decoder
       /\ curr_setting' = s.curr_setting
       /\ mode' = s.mode
       /\ timelapse_rate' = s.timelapse_rate
       /\ timelapse_remaining' = s.timelapse_remaining
       /\ timelapse_timestamp' = s.timelapse_timestamp
       /\ exposure_auto' = s.exposure_auto
       /\ gain_auto' = s.gain_auto
       /\ wb_auto' = s.wb_auto
       /\ last_frame' = s.last_frame
       /\ stop_motion_frame' = s.stop_motion_frame
       /\ now' = s.now
       /\ listed' = s.listed
       /\ log' = s.log
       /\ last_load' = s.last_load
       /\ result' = s.result
       /\ shutter_value' = s.shutter_value
       /\ gif' = s.gif

\* the handler did this (a message shown, a file opened, a call made)
Emit(s, event) == [s EXCEPT !.log = Append(@, event)]

(***************************************************************************)
(* is_sd_card_available: what the operating system answers about /sd.      *)
(***************************************************************************)
SdStatus(in_root, listable, statvfs_ok, bavail) ==
    [in_root |-> in_root, listable |-> listable, statvfs_ok |-> statvfs_ok,
     bavail |-> bavail]

SdAbsent == SdStatus(FALSE, FALSE, FALSE, 0)

SdUnlistable == SdStatus(TRUE, FALSE, FALSE, 0)

SdFull == SdStatus(TRUE, TRUE, TRUE, 0)

SdFree == SdStatus(TRUE, TRUE, TRUE, 1)

SdNoStatvfs == SdStatus(TRUE, TRUE, FALSE, 0)

SdStatuses == {SdAbsent, SdUnlistable, SdFull, SdFree, SdNoStatvfs}


is_sd_card_available(sd) ==
    IF ~sd.in_root THEN FALSE
    ELSE IF ~sd.listable THEN FALSE
    ELSE IF sd.statvfs_ok THEN sd.bavail > 0
    ELSE sd.listable

\* the handlers read only the answer of is_sd_card_available: one status
\* stands for all the statuses with the same answer
SdCases ==
    {CHOOSE sd \in SdStatuses : is_sd_card_available(sd) = answer :
        answer \in {is_sd_card_available(sd) : sd \in SdStatuses}}

(***************************************************************************)
(* The gallery: scanning, decoding, showing.                               *)
(***************************************************************************)
\* os.listdir('/sd') answers with the names in any order, or raises
Listing(ok, files) == [ok |-> ok, files |-> files]

IsImageName(file) ==
    LET file_lower == lower(file)
    IN  \/ endswith(file_lower, ExtJpg)
        \/ endswith(file_lower, ExtJpeg)
        \/ endswith(file_lower, ExtGif)

\* the names are kept in the order os.listdir() gave them
scan_gallery_images_Unsorted(s, sd, listing) ==
    LET s1 == [s EXCEPT !.gallery_images = <<>>]
    IN  IF ~is_sd_card_available(sd) THEN Emit(s1, "scan:no_sd")
        ELSE IF ~listing.ok THEN Emit(s1, "scan:error")
        ELSE Emit([s1 EXCEPT !.listed = listing.files,
                             !.gallery_images =
                                 SelectSeq(listing.files, IsImageName)],
                  "scan")

scan_gallery_images(s, sd, listing) ==
    LET s1 == [s EXCEPT !.gallery_images = <<>>]
    IN  IF ~is_sd_card_available(sd) THEN Emit(s1, "scan:no_sd")
        ELSE IF ~listing.ok THEN Emit(s1, "scan:error")
        ELSE Emit([s1 EXCEPT !.listed = listing.files,
                             !.gallery_images =
                                 sort(SelectSeq(listing.files, IsImageName))],
                  "scan")

get_current_scale_factor(s) == s.gallery_zoom_level

\* [1, 2, 4, 8], "Corresponding to scale 0, 1, 2, 3"
scale_factors == <<1, 2, 4, 8>>

Bitmap(w, h) == [w |-> w, h |-> h]

\* the zoom level is taken for a position in scale_factors counted from one
load_jpeg_file_FromOne(s, filename, content) ==
    IF ~s.jpeg_decoder THEN None
    ELSE IF content.format # "jpeg" \/ ~content.ok THEN None
    ELSE LET scale == get_current_scale_factor(s)
             scale_factor == scale_factors[scale]
         IN  Some(Bitmap(content.w \div scale_factor,
                         content.h \div scale_factor))

load_jpeg_file(s, filename, content) ==
    IF ~s.jpeg_decoder THEN None
    ELSE IF content.format # "jpeg" \/ ~content.ok THEN None
    ELSE LET scale == get_current_scale_factor(s)
             scale_factor == scale_factors[scale + 1]
         IN  Some(Bitmap(content.w \div scale_factor,
                         content.h \div scale_factor))

load_gif_file(s, filename, content) ==
    IF content.format # "gif" \/ ~content.ok
    THEN [bitmap |-> None, palette |-> FALSE, raised |-> FALSE]
    ELSE [bitmap |-> Some(Bitmap(content.w, content.h)), palette |-> TRUE,
          raised |-> FALSE]

\* the file is read without the try/except of load_image_file and of the
\* loaders: what the decoder raises on a file it cannot read leaves the function
load_image_file_NoTry(s, filename, content) ==
    [bitmap |-> IF content.format = "gif"
                THEN load_gif_file(s, filename, content).bitmap
                ELSE load_jpeg_file(s, filename, content),
     palette |-> content.format = "gif", raised |-> ~content.ok]

\* every exception of the loaders is caught here: raised is always FALSE
load_image_file(s, filename, content) ==
    LET filename_lower == lower(filename)
    IN  IF endswith(filename_lower, ExtJpg) \/ endswith(filename_lower, ExtJpeg)
        THEN [bitmap |-> load_jpeg_file(s, filename, content),
              palette |-> FALSE, raised |-> FALSE]
        ELSE IF endswith(filename_lower, ExtGif)
        THEN load_gif_file(s, filename, content)
        ELSE [bitmap |-> None, palette |-> FALSE, raised |-> FALSE]

Loaded(s, filename, content, bitmap, shown) ==
    [file |-> filename, zoom |-> s.gallery_zoom_level,
     native |-> <<content.w, content.h>>, bitmap |-> bitmap, shown |-> shown]

show_image_info_fallback(s, filename, content) ==
    IF content.size # None
    THEN Emit(s, "render:fallback")
    ELSE Emit(s, "render:fallback_no_info")

display_current_image(s) ==
    IF s.fault THEN s
    ELSE IF Len(s.gallery_images) = 0
            \/ s.gallery_index >= Len(s.gallery_images)
    THEN Emit([s EXCEPT !.last_load =
                   [NoLoad EXCEPT !.zoom = s.gallery_zoom_level,
                                  !.shown = "no_image"]],
              "msg:No Image")
    ELSE LET current_file == s.gallery_images[s.gallery_index + 1]
             content == FileContent(current_file)
             loaded == load_image_file(s, current_file, content)
         IN  IF loaded.raised
             THEN [s EXCEPT !.fault = TRUE,
                            !.last_load = Loaded(s, current_file, content,
                                                 None, "raised")]
             ELSE IF loaded.bitmap = None
             THEN show_image_info_fallback(
                      [s EXCEPT !.last_load =
                           Loaded(s, current_file, content, None, "fallback")],
                      current_file, content)
             ELSE Emit([s EXCEPT
                           !.has_gallery_group = TRUE,
                           !.gallery_group =
                               <<[file |-> current_file,
                                  bitmap |-> loaded.bitmap[1]]>>,
                           !.last_load =
                               Loaded(s, current_file, content, loaded.bitmap,
                                      "raster")],
                       "render:image")

\* the list and the index are left as they are
exit_gallery_mode_KeepsList(s) ==
    IF s.fault THEN s
    ELSE Emit(Emit([s EXCEPT !.gallery_mode = FALSE,
                             !.has_gallery_group = FALSE,
                             !.gallery_group = <<>>],
                   "exit_gallery"), "msg:Camera Mode")

exit_gallery_mode(s) ==
    IF s.fault THEN s
    ELSE Emit(Emit([s EXCEPT !.gallery_mode = FALSE,
                             !.gallery_images = <<>>,
                             !.gallery_index = 0,
                             !.has_gallery_group = FALSE,
                             !.gallery_group = <<>>],
                   "exit_gallery"), "msg:Camera Mode")

enter_gallery_mode_KeepsEmpty(s, sd, listing) ==
    LET s1 == Emit([s EXCEPT !.gallery_mode = TRUE, !.gallery_index = 0,
                             !.gallery_zoom_level = 1], "enter_gallery")
        s2 == scan_gallery_images(s1, sd, listing)
    IN  IF Len(s2.gallery_images) = 0
        THEN Emit(s2, "msg:No Photos")
        ELSE display_current_image(Emit(s2, "msg:Gallery Mode"))

enter_gallery_mode(s, sd, listing) ==
    IF s.fault THEN s
    ELSE LET s1 == Emit([s EXCEPT !.gallery_mode = TRUE, !.gallery_index = 0,
                                  !.gallery_zoom_level = 1], "enter_gallery")
             s2 == scan_gallery_images(s1, sd, listing)
         IN  IF Len(s2.gallery_images) = 0
             THEN exit_gallery_mode(Emit(s2, "msg:No Photos"))
             ELSE display_current_image(Emit(s2, "msg:Gallery Mode"))

\* the lower bound of the zoom level is off by one
gallery_zoom_in_Beyond(s) ==
    IF s.gallery_zoom_level >= 1
    THEN display_current_image(
             Emit([s EXCEPT !.gallery_zoom_level = @ - 1], "zoom_in"))
    ELSE s

gallery_zoom_in(s) ==
    IF s.fault THEN s
    ELSE IF s.gallery_zoom_level > 1
    THEN display_current_image(
             Emit([s EXCEPT !.gallery_zoom_level = @ - 1], "zoom_in"))
    ELSE s

gallery_zoom_out(s) ==
    IF s.fault THEN s
    ELSE IF s.gallery_zoom_level < 3
    THEN display_current_image(
             Emit([s EXCEPT !.gallery_zoom_level = @ + 1], "zoom_out"))
    ELSE s

NavigateEvent(direction) ==
    IF direction < 0 THEN "navigate:-1" ELSE "navigate:+1"

\* past the last image the index stays on the last image
gallery_navigate_Sticks(s, direction) ==
    IF Len(s.gallery_images) = 0 THEN s
    ELSE LET moved == s.gallery_index + direction
             wrapped == IF moved < 0 THEN Len(s.gallery_images) - 1
                        ELSE IF moved >= Len(s.gallery_images)
                        THEN Len(s.gallery_images) - 1
                        ELSE moved
         IN  display_current_image(
                 Emit([s EXCEPT !.gallery_index = wrapped],
                      NavigateEvent(direction)))

\* the index is moved and not wrapped
gallery_navigate_NoWrap(s, direction) ==
    IF Len(s.gallery_images) = 0 THEN s
    ELSE display_current_image(
             Emit([s EXCEPT !.gallery_index = @ + direction],
                  NavigateEvent(direction)))

gallery_navigate(s, direction) ==
    IF s.fault THEN s
    ELSE IF Len(s.gallery_images) = 0 THEN s
    ELSE LET moved == s.gallery_index + direction
             wrapped == IF moved < 0 THEN Len(s.gallery_images) - 1
                        ELSE IF moved >= Len(s.gallery_images) THEN 0
                        ELSE moved
         IN  display_current_image(
                 Emit([s EXCEPT !.gallery_index = wrapped],
                      NavigateEvent(direction)))

(***************************************************************************)
(* Capture: status messages, the guard on storage, the capture functions.  *)
(***************************************************************************)
show_capture_status(s, success, preview_only) ==
    IF preview_only THEN Emit(s, "msg:Preview Only")
    ELSE IF success THEN Emit(s, "msg:Saved!")
    ELSE Emit(s, "msg:Failed")

\* what a capture function meets: no exception, or an exception of some
\* type, raised before the output file is opened or while it is written
Outcome(exc, at) == [exc |-> exc, at |-> at]

Exceptions == {"TypeError", "RuntimeError", "OSError", "MemoryError"}

CaptureOk == Outcome("none", "none")

CaptureOutcomes ==
    {CaptureOk} \cup {Outcome(e, a) : e \in Exceptions, a \in {"open", "write"}}

\* pycam.capture_jpeg(): takes a frame and writes it to the next image file
capture_jpeg(s, outcome) ==
    IF outcome.at = "open" THEN s
    ELSE IF outcome.at = "write" THEN Emit(s, "file_open")
    ELSE [Emit(Emit(Emit(s, "file_open"), "file_write"), "file_close")
             EXCEPT !.result = "None"]

capture_gameboy_gif(s, outcome) ==
    IF outcome.at = "open" THEN s
    ELSE IF outcome.at = "write" THEN Emit(s, "file_open")
    ELSE [Emit(Emit(s, "file_open"), "file_write") EXCEPT !.result = "True"]

capture_animated_gif(s, outcome) ==
    IF outcome.at = "open" THEN s
    ELSE IF outcome.at = "write"
    THEN Emit(Emit(s, "file_open"), "label:RECORDING")
    ELSE [Emit(Emit(Emit(Emit(Emit(s, "file_open"), "label:RECORDING"),
                         "file_write"), "label:GIF"), "file_close")
             EXCEPT !.result = "True"]

capture_func(s, fn, outcome) ==
    IF fn = "capture_jpeg" THEN capture_jpeg(s, outcome)
    ELSE IF fn = "capture_gameboy_gif" THEN capture_gameboy_gif(s, outcome)
    ELSE capture_animated_gif(s, outcome)

safe_capture_operation_Unguarded(s, fn, sd, outcome) ==
    LET checked == IF is_sd_card_available(sd) THEN Emit(s, "capture:sd_ok")
                   ELSE show_capture_status(Emit(s, "capture:no_sd"), TRUE, TRUE)
        s1 == capture_func(checked, fn, outcome)
    IN  IF outcome.exc = "none" THEN show_capture_status(s1, TRUE, FALSE)
        ELSE [show_capture_status(s1, FALSE, FALSE) EXCEPT !.result = "False"]

safe_capture_operation(s, fn, sd, outcome) ==
    IF s.fault THEN s
    ELSE IF ~is_sd_card_available(sd)
    THEN [show_capture_status(Emit(s, "capture:no_sd"), TRUE, TRUE)
             EXCEPT !.result = "False"]
    ELSE LET s1 == capture_func(Emit(s, "capture:sd_ok"), fn, outcome)
         IN  IF outcome.exc = "none"
             THEN show_capture_status(s1, TRUE, FALSE)
             ELSE IF outcome.exc \in {"TypeError", "RuntimeError", "OSError"}
             THEN [show_capture_status(s1, FALSE, FALSE)
                      EXCEPT !.result = "False"]
             ELSE [s1 EXCEPT !.fault = TRUE]

(***************************************************************************)
(* capture_animated_gif statement by statement: what capture_animated_gif  *)
(* above does in one step as seen from the main loop, the operators below  *)
(* do one statement group at a time, with the recording in gif.  The k-th  *)
(* frame continuous_capture() returns during a recording is frame k.       *)
(***************************************************************************)
\* while (i < 15) ...
MinFrames == 15

\* f = pycam.open_next_image("gif"); the label; the GifWriter is entered
gif_open(s) ==
    Emit(Emit([s EXCEPT !.gif = [NoGif EXCEPT !.file = "open",
                                              !.label = "RECORDING"]],
              "file_open"), "label:RECORDING")

\* the condition is met while the button is held once 15 frames are recorded
gif_loop_condition_Never(s) == s.gif.i >= 0

\* the two halves of the condition are joined by and
gif_loop_condition_And(s) == (s.gif.i < MinFrames) /\ ~s.shutter_value

\* while (i < 15) or not pycam.shutter_button.value
gif_loop_condition(s) == (s.gif.i < MinFrames) \/ ~s.shutter_value

\* one pass of the loop body that raises nothing
gif_add_frame(s) ==
    LET _gifframe == s.gif.i + 1
    IN  [s EXCEPT !.gif.i = @ + 1,
                  !.gif.frames = Append(@, _gifframe),
                  !.gif.blitted = Append(@, _gifframe)]

\* the with block is left: a GifWriter that owns its file closes it
gif_writer_exit(s, owned) ==
    IF owned THEN [s EXCEPT !.gif.file = "closed"] ELSE s

\* safe_capture_operation's answer to an exception of capture_func
capture_raised(s, exc) ==
    IF exc \in {"TypeError", "RuntimeError", "OSError"}
    THEN [show_capture_status(s, FALSE, FALSE) EXCEPT !.result = "False"]
    ELSE [s EXCEPT !.fault = TRUE]

\* one pass of the loop body in which continuous_capture(), add_frame() or
\* blit() raises: the with block is left by the exception
gif_frame_raises(s, exc, owned) ==
    capture_raised(gif_writer_exit([s EXCEPT !.gif.i = @ + 1], owned), exc)

\* the loop is over: the label, f.close(), return True, and "Saved!"
gif_finish(s, owned) ==
    LET s1 == gif_writer_exit(s, owned)
        s2 == Emit([s1 EXCEPT !.gif.label = "GIF"], "label:GIF")
        s3 == Emit([s2 EXCEPT !.gif.file = "closed", !.gif.closes = @ + 1],
                   "file_close")
    IN  show_capture_status([s3 EXCEPT !.result = "True"], TRUE, FALSE)

(***************************************************************************)
(* Frames: the sensor's frames 1..MaxFrame, raw or dithered.               *)
(***************************************************************************)
Frames == 1..MaxFrame

Blank == [kind |-> "blank", id |-> 0]

Raw(frame) == [kind |-> "raw", id |-> frame]

Dithered(frame) == [kind |-> "dither", id |-> frame]

(***************************************************************************)
(* The capture modes and the settings.                                     *)
(***************************************************************************)
\* pycam.modes: the mode texts handle_camera_modes and handle_shutter_button
\* tell apart
Modes == <<"JPEG", "GIF", "GBOY", "STOP", "LAPS">>

mode_text(s) == Modes[s.mode + 1]

\* pycam.timelapse_rates, in seconds
timelapse_rates == <<1, 2>>

SETTINGS ==
    <<"None", "resolution", "effect", "mode", "led_level", "led_color",
      "timelapse_rate">>

\* setattr(pycam, key, value): the setters of pycam wrap around
setattr(s, key, delta) ==
    IF key = "mode"
    THEN Emit([s EXCEPT !.mode = (@ + delta) % Len(Modes)], "set:mode")
    ELSE IF key = "timelapse_rate"
    THEN Emit([s EXCEPT !.timelapse_rate = (@ + delta) % Len(timelapse_rates)],
              "set:timelapse_rate")
    ELSE Emit(s, "set:other")

handle_stop_motion_mode(s, live) ==
    IF s.stop_motion_frame # 0 THEN Emit(s, "blit:onionskin")
    ELSE Emit(s, "blit:live")

handle_gameboy_mode(s, live) ==
    Emit([s EXCEPT !.last_frame = Dithered(live)], "blit:last_frame")

\* the capture is due only once the fire time has passed
handle_timelapse_mode_Strict(s, sd, outcome, elapsed) ==
    LET s1 == IF s.timelapse_remaining = None THEN s
              ELSE [s EXCEPT !.timelapse_remaining =
                        Some(s.timelapse_timestamp[1] - s.now)]
    IN  IF s1.timelapse_remaining # None /\ s1.timelapse_remaining[1] < 0
        THEN LET s2 == safe_capture_operation(
                           Emit(Emit(s1, "timelapse_fire"), "msg:Snap!"),
                           "capture_jpeg", sd, outcome)
             IN  IF s2.fault THEN s2
                 ELSE [Emit(s2, "live_preview_mode") EXCEPT
                          !.now = s.now + elapsed,
                          !.timelapse_timestamp =
                              Some(s.now + elapsed
                                   + timelapse_rates[s.timelapse_rate + 1] + 1)]
        ELSE s1

handle_timelapse_mode(s, sd, outcome, elapsed) ==
    LET s1 == IF s.timelapse_remaining = None THEN s
              ELSE [s EXCEPT !.timelapse_remaining =
                        Some(s.timelapse_timestamp[1] - s.now)]
    IN  IF s1.timelapse_remaining # None /\ s1.timelapse_remaining[1] <= 0
        THEN LET s2 == safe_capture_operation(
                           Emit(Emit(s1, "timelapse_fire"), "msg:Snap!"),
                           "capture_jpeg", sd, outcome)
             IN  IF s2.fault THEN s2
                 ELSE [Emit(s2, "live_preview_mode") EXCEPT
                          !.now = s.now + elapsed,
                          !.timelapse_timestamp =
                              Some(s.now + elapsed
                                   + timelapse_rates[s.timelapse_rate + 1] + 1)]
        ELSE s1

handle_camera_modes(s, live, sd, outcome, elapsed) ==
    IF mode_text(s) = "STOP" THEN handle_stop_motion_mode(s, live)
    ELSE IF mode_text(s) = "GBOY" THEN handle_gameboy_mode(s, live)
    ELSE IF mode_text(s) = "LAPS"
    THEN handle_timelapse_mode(s, sd, outcome, elapsed)
    ELSE Emit(s, "blit:live")

handle_stop_motion_capture(s, live, sd, outcome) ==
    LET s1 == [s EXCEPT !.last_frame = Raw(live), !.stop_motion_frame = @ + 1]
        s2 == safe_capture_operation(Emit(s1, "msg:Snap!"), "capture_jpeg",
                                     sd, outcome)
    IN  IF s2.fault THEN s2 ELSE Emit(s2, "live_preview_mode")

handle_gameboy_capture(s, sd, outcome) ==
    safe_capture_operation(s, "capture_gameboy_gif", sd, outcome)

handle_gif_capture(s, sd, outcome) ==
    safe_capture_operation(s, "capture_animated_gif", sd, outcome)

handle_jpeg_capture(s, sd, outcome) ==
    LET s2 == safe_capture_operation(Emit(s, "msg:Snap!"), "capture_jpeg",
                                     sd, outcome)
    IN  IF s2.fault THEN s2 ELSE Emit(s2, "live_preview_mode")

handle_shutter_button(s, long_press, short_count, live, sd, outcome) ==
    LET s1 == IF long_press THEN Emit(s, "autofocus") ELSE s
    IN  IF ~short_count THEN s1
        ELSE LET s2 == Emit(s1, "shutter_short")
             IN  IF mode_text(s2) = "STOP"
                 THEN handle_stop_motion_capture(s2, live, sd, outcome)
                 ELSE IF mode_text(s2) = "GBOY"
                 THEN handle_gameboy_capture(s2, sd, outcome)
                 ELSE IF mode_text(s2) = "GIF"
                 THEN handle_gif_capture(s2, sd, outcome)
                 ELSE IF mode_text(s2) = "JPEG"
                 THEN handle_jpeg_capture(s2, sd, outcome)
                 ELSE s2

\* going left does not skip timelapse_rate
handle_navigation_buttons_NoSkipLeft(s, up, down, right, left) ==
    LET key1 == SETTINGS[s.curr_setting + 1]
        s1 == IF up /\ key1 # "None" THEN setattr(s, key1, 1) ELSE s
        key2 == SETTINGS[s1.curr_setting + 1]
        s2 == IF down /\ key2 # "None" THEN setattr(s1, key2, -1) ELSE s1
        r1 == (s2.curr_setting + 1) % Len(SETTINGS)
        r2 == IF mode_text(s2) # "LAPS" /\ SETTINGS[r1 + 1] = "timelapse_rate"
              THEN (r1 + 1) % Len(SETTINGS) ELSE r1
        s3 == IF right THEN Emit([s2 EXCEPT !.curr_setting = r2], "select_setting")
              ELSE s2
        l1 == (s3.curr_setting - 1 + Len(SETTINGS)) % Len(SETTINGS)
    IN  IF left THEN Emit([s3 EXCEPT !.curr_setting = l1], "select_setting")
        ELSE s3

handle_navigation_buttons(s, up, down, right, left) ==
    LET key1 == SETTINGS[s.curr_setting + 1]
        s1 == IF up /\ key1 # "None" THEN setattr(s, key1, 1) ELSE s
        key2 == SETTINGS[s1.curr_setting + 1]
        s2 == IF down /\ key2 # "None" THEN setattr(s1, key2, -1) ELSE s1
        r1 == (s2.curr_setting + 1) % Len(SETTINGS)
        r2 == IF mode_text(s2) # "LAPS" /\ SETTINGS[r1 + 1] = "timelapse_rate"
              THEN (r1 + 1) % Len(SETTINGS) ELSE r1
        s3 == IF right THEN Emit([s2 EXCEPT !.curr_setting = r2], "select_setting")
              ELSE s2
        l1 == (s3.curr_setting - 1 + Len(SETTINGS)) % Len(SETTINGS)
        l2 == IF mode_text(s3) # "LAPS" /\ SETTINGS[l1 + 1] = "timelapse_rate"
              THEN (l1 + 1) % Len(SETTINGS) ELSE l1
    IN  IF left THEN Emit([s3 EXCEPT !.curr_setting = l2], "select_setting")
        ELSE s3

\* the gallery is toggled in LAPS mode as in the other modes
handle_select_button_Always(s, sd, listing) ==
    IF s.fault THEN s
    ELSE LET s1 == [Emit(s, "SEL") EXCEPT !.gallery_mode = ~s.gallery_mode]
         IN  IF s1.gallery_mode THEN enter_gallery_mode(s1, sd, listing)
             ELSE exit_gallery_mode(s1)

handle_select_button(s, sd, listing) ==
    IF s.fault THEN s
    ELSE IF mode_text(s) = "LAPS"
    THEN Emit(Emit(s, "SEL"), "timelapse_submode")
    ELSE LET s1 == [Emit(s, "SEL") EXCEPT !.gallery_mode = ~s.gallery_mode]
         IN  IF s1.gallery_mode THEN enter_gallery_mode(s1, sd, listing)
             ELSE exit_gallery_mode(s1)

handle_ok_button_NoRelease(s) ==
    IF mode_text(s) = "LAPS"
    THEN IF s.timelapse_remaining = None
         THEN [s EXCEPT
                  !.timelapse_remaining =
                      Some(timelapse_rates[s.timelapse_rate + 1]),
                  !.timelapse_timestamp =
                      Some(s.now + timelapse_rates[s.timelapse_rate + 1] + 1),
                  !.exposure_auto = FALSE, !.gain_auto = FALSE,
                  !.wb_auto = FALSE]
         ELSE [s EXCEPT !.timelapse_remaining = None,
                        !.exposure_auto = TRUE, !.gain_auto = TRUE]
    ELSE Emit(s, "msg:battery")

handle_ok_button(s) ==
    IF mode_text(s) = "LAPS"
    THEN IF s.timelapse_remaining = None
         THEN Emit([s EXCEPT
                  !.timelapse_remaining =
                      Some(timelapse_rates[s.timelapse_rate + 1]),
                  !.timelapse_timestamp =
                      Some(s.now + timelapse_rates[s.timelapse_rate + 1] + 1),
                  !.exposure_auto = FALSE, !.gain_auto = FALSE,
                  !.wb_auto = FALSE], "timelapse_start")
         ELSE Emit([s EXCEPT !.timelapse_remaining = None,
                        !.exposure_auto = TRUE, !.gain_auto = TRUE,
                        !.wb_auto = TRUE], "timelapse_stop")
    ELSE Emit(s, "msg:battery")

\* the buttons are served first and the storage is looked at afterwards
handle_gallery_buttons_Late(s, sd, left, right, select, short_count, up, down) ==
    LET s1 == IF left THEN gallery_navigate(s, -1) ELSE s
        s2 == IF right THEN gallery_navigate(s1, 1) ELSE s1
        s5 == IF up THEN gallery_zoom_in(s2) ELSE s2
        s6 == IF down THEN gallery_zoom_out(s5) ELSE s5
    IN  IF ~is_sd_card_available(sd)
        THEN exit_gallery_mode(
                 Emit(Emit(s6, "gallery:no_sd"), "msg:SD Card Removed"))
        ELSE IF select \/ short_count
        THEN exit_gallery_mode(Emit(s6, "gallery:sd_ok"))
        ELSE Emit(s6, "gallery:sd_ok")

\* a short press of the shutter is not looked at
handle_gallery_buttons_NoShutter(s, sd, left, right, select, short_count, up, down) ==
    IF ~is_sd_card_available(sd)
    THEN exit_gallery_mode(Emit(Emit(s, "gallery:no_sd"), "msg:SD Card Removed"))
    ELSE LET s0 == Emit(s, "gallery:sd_ok")
             s1 == IF left THEN gallery_navigate(s0, -1) ELSE s0
             s2 == IF right THEN gallery_navigate(s1, 1) ELSE s1
             s3 == IF select
                   THEN handle_select_button(s2, sd, Listing(FALSE, <<>>))
                   ELSE s2
             s5 == IF up THEN gallery_zoom_in(s3) ELSE s3
         IN  IF down THEN gallery_zoom_out(s5) ELSE s5

handle_gallery_buttons(s, sd, left, right, select, short_count, up, down) ==
    IF ~is_sd_card_available(sd)
    THEN exit_gallery_mode(Emit(Emit(s, "gallery:no_sd"), "msg:SD Card Removed"))
    ELSE LET s0 == Emit(s, "gallery:sd_ok")
             s1 == IF left THEN gallery_navigate(s0, -1) ELSE s0
             s2 == IF right THEN gallery_navigate(s1, 1) ELSE s1
             s3 == IF select
                   THEN handle_select_button(s2, sd, Listing(FALSE, <<>>))
                   ELSE s2
             s4 == IF short_count THEN exit_gallery_mode(s3) ELSE s3
             s5 == IF up THEN gallery_zoom_in(s4) ELSE s4
         IN  IF down THEN gallery_zoom_out(s5) ELSE s5

handle_sd_card_events(s, fell, rose, mounted) ==
    LET s1 == IF fell THEN Emit(s, "unmount_sd_card") ELSE s
    IN  IF ~rose THEN s1
        ELSE IF mounted THEN Emit(Emit(s1, "msg:Mounting SD Card"), "mount_sd_card")
        ELSE Emit(Emit(s1, "msg:Mounting SD Card"), "msg:SD Card Failed!")

(***************************************************************************)
(* The inputs of a tick.                                                   *)
(***************************************************************************)
RECURSIVE Orderings(_)
Orderings(names) ==
    IF names = {} THEN {<<>>}
    ELSE UNION {{<<n>> \o rest : rest \in Orderings(names \ {n})} : n \in names}

\* os.listdir('/sd'): any of the names, each once, in any order; or an error
Listings(names) ==
    {Listing(TRUE, files) : files \in UNION {Orderings(d) : d \in SUBSET names}}
        \cup {Listing(FALSE, <<>>)}

(***************************************************************************)
(* main(): the state after init_camera_system(), and the handlers of one   *)
(* iteration of the loop in the order the loop calls them.                 *)
(***************************************************************************)
\* the globals as the module and init_camera_system() set them
Constructed ==
    /\ pc = "loop"
    /\ gallery_mode = FALSE
    /\ gallery_images = <<>>
    /\ gallery_index = 0
    /\ has_gallery_group = FALSE
    /\ gallery_group = <<>>
    /\ curr_setting = 0
    /\ timelapse_remaining = None
    /\ timelapse_timestamp = None
    /\ exposure_auto = TRUE
    /\ gain_auto = TRUE
    /\ wb_auto = TRUE
    /\ last_frame = Blank
    /\ stop_motion_frame = 0
    /\ now = 0
    /\ log = <<>>
    /\ last_load = NoLoad
    /\ result = "none"
    /\ shutter_value = TRUE
    /\ gif = NoGif

\* jpegio.JpegDecoder() may fail; PyCamera() sets the mode and the timelapse
\* rate the camera starts in
Init ==
    /\ Constructed
    /\ gallery_zoom_level = 1
    /\ listed = <<>>
    /\ jpeg_decoder \in BOOLEAN
    /\ mode \in 0..(Len(Modes) - 1)
    /\ timelapse_rate \in 0..(Len(timelapse_rates) - 1)

\* the answers a capture gets: the state of the storage and, when the storage
\* is available so that the capture function runs, what that function meets
CaptureEnv(sd, outcome) == [sd |-> sd, outcome |-> outcome]

CaptureEnvs ==
    {CaptureEnv(sd, outcome) :
        sd \in {x \in SdCases : is_sd_card_available(x)},
        outcome \in CaptureOutcomes}
    \cup {CaptureEnv(sd, CaptureOk) :
             sd \in {x \in SdCases : ~is_sd_card_available(x)}}

\* the handler does not ask: one answer stands for all
NotAsked == {CaptureEnv(SdFree, CaptureOk)}

\* the scheduled capture of handle_timelapse_mode is due
FireDue ==
    /\ mode_text(Cur) = "LAPS"
    /\ timelapse_remaining # None
    /\ timelapse_timestamp[1] - now <= 0

\* if not gallery_mode: handle_camera_modes()
CameraModes ==
    /\ pc = "loop"
    /\ ~gallery_mode
    /\ \E live \in Frames,
          env \in IF FireDue THEN CaptureEnvs ELSE NotAsked,
          elapsed \in IF FireDue THEN 0..1 ELSE {0} :
          /\ now + elapsed <= MaxTime
          /\ Becomes(handle_camera_modes(Cur, live, env.sd, env.outcome,
                                         elapsed), "buttons")

\* the button edges handle_gallery_buttons reads
GalleryKeys == {"left", "right", "select", "short_count", "up", "down"}

\* handle_camera_buttons() runs after handle_gallery_buttons()
GalleryButtons_ThenCamera ==
    /\ pc = "loop"
    /\ gallery_mode
    /\ \E sd \in SdCases :
          \E pressed \in SUBSET GalleryKeys :
             Becomes(handle_gallery_buttons(
                         Cur, sd, "left" \in pressed, "right" \in pressed,
                         "select" \in pressed, "short_count" \in pressed,
                         "up" \in pressed, "down" \in pressed), "buttons")

\* handle_all_buttons() with gallery_mode set: handle_gallery_buttons()
GalleryButtons ==
    /\ pc = "loop"
    /\ gallery_mode
    /\ \E sd \in SdCases :
          \E pressed \in SUBSET GalleryKeys :
             \E s \in {handle_gallery_buttons(
                           Cur, sd, "left" \in pressed, "right" \in pressed,
                           "select" \in pressed, "short_count" \in pressed,
                           "up" \in pressed, "down" \in pressed)} :
                Becomes(s, IF s.gallery_mode THEN "loop" ELSE "sd_card")

\* handle_all_buttons() otherwise: handle_camera_buttons(), handler by handler
ShutterButton(user) ==
    /\ pc = "buttons"
    /\ \E long_press \in BOOLEAN, short_count \in user.short, live \in Frames :
          \E env \in IF short_count /\ mode_text(Cur) # "LAPS"
                     THEN CaptureEnvs ELSE NotAsked :
             /\ (short_count /\ mode_text(Cur) = "STOP")
                    => stop_motion_frame < MaxStopFrames
             /\ Becomes(handle_shutter_button(Cur, long_press, short_count,
                                              live, env.sd, env.outcome),
                        "navigation")

NavigationButtons(user) ==
    /\ pc = "navigation"
    /\ \E pressed \in user.nav :
          Becomes(handle_navigation_buttons(
                      Cur, "up" \in pressed, "down" \in pressed,
                      "right" \in pressed, "left" \in pressed), "select")

\* if pycam.select.fell: handle_select_button()
SelectButton(user) ==
    /\ pc = "select"
    /\ \E select \in user.select :
          IF ~select THEN Becomes(Cur, "ok")
          ELSE \E sd \in IF mode_text(Cur) = "LAPS" THEN {SdFree}
                         ELSE SdCases :
                  \E listing \in IF mode_text(Cur) # "LAPS"
                                    /\ is_sd_card_available(sd)
                                 THEN Listings(DirNames)
                                 ELSE {Listing(FALSE, <<>>)} :
                     Becomes(handle_select_button(Cur, sd, listing), "ok")

\* if pycam.ok.fell: handle_ok_button()
OkButton(user) ==
    /\ pc = "ok"
    /\ \E ok \in user.ok :
          \E s \in {IF ok THEN handle_ok_button(Cur) ELSE Cur} :
             Becomes(s, IF s.gallery_mode THEN "loop" ELSE "sd_card")

\* if not gallery_mode: handle_sd_card_events()
SdCardEvents ==
    /\ pc = "sd_card"
    /\ \E fell \in BOOLEAN, rose \in BOOLEAN, mounted \in BOOLEAN :
          Becomes(handle_sd_card_events(Cur, fell, rose, mounted), "loop")

\* a second passes
ClockTick ==
    /\ pc # "crashed"
    /\ now < MaxTime
    /\ now' = now + 1
    /\ UNCHANGED <<pc, gallery_mode, gallery_images, gallery_index,
                   gallery_zoom_level, has_gallery_group, gallery_group,
                   jpeg_decoder, curr_setting, mode, timelapse_rate,
                   timelapse_remaining, timelapse_timestamp, exposure_auto,
                   gain_auto, wb_auto, last_frame, stop_motion_frame, listed,
                   log, last_load, result, shutter_value, gif>>

\* the button edges handle_navigation_buttons reads
NavKeys == {"up", "down", "right", "left"}

\* who holds the camera: the buttons pressed outside the gallery
AnyUser ==
    [short |-> BOOLEAN, nav |-> SUBSET NavKeys, select |-> BOOLEAN,
     ok |-> BOOLEAN]

\* takes pictures, changes settings and runs timelapses, never opens the
\* gallery
Photographer ==
    [short |-> BOOLEAN, nav |-> SUBSET NavKeys, select |-> {FALSE},
     ok |-> BOOLEAN]

\* browses the gallery in the mode the camera woke up in, never captures
Visitor ==
    [short |-> {FALSE}, nav |-> {{}}, select |-> BOOLEAN, ok |-> {FALSE}]

Next ==
    \/ CameraModes
    \/ GalleryButtons
    \/ ShutterButton(AnyUser)
    \/ NavigationButtons(AnyUser)
    \/ SelectButton(AnyUser)
    \/ OkButton(AnyUser)
    \/ SdCardEvents
    \/ ClockTick

Spec == Init /\ [][Next]_vars

NextCamera ==
    \/ CameraModes
    \/ ShutterButton(Photographer)
    \/ NavigationButtons(Photographer)
    \/ SelectButton(Photographer)
    \/ OkButton(Photographer)
    \/ SdCardEvents
    \/ ClockTick

\* the gallery is never opened: the decoder is not used
InitCamera == Init /\ jpeg_decoder

SpecCamera == InitCamera /\ [][NextCamera]_vars

NextGallery ==
    \/ CameraModes
    \/ GalleryButtons
    \/ ShutterButton(Visitor)
    \/ NavigationButtons(Visitor)
    \/ SelectButton(Visitor)
    \/ OkButton(Visitor)
    \/ SdCardEvents

SpecGallery == Init /\ [][NextGallery]_vars

\* captures, runs timelapses and browses the gallery in the mode the camera
\* woke up in
Tourist ==
    [short |-> BOOLEAN, nav |-> {{}}, select |-> BOOLEAN, ok |-> BOOLEAN]

NextDispatch ==
    \/ CameraModes
    \/ GalleryButtons
    \/ ShutterButton(Tourist)
    \/ NavigationButtons(Tourist)
    \/ SelectButton(Tourist)
    \/ OkButton(Tourist)
    \/ SdCardEvents

SpecDispatch == InitCamera /\ [][NextDispatch]_vars

(***************************************************************************)
(* A recording followed frame by frame: the camera is in GIF mode, the     *)
(* shutter is pressed, and handle_gif_capture runs statement by statement. *)
(***************************************************************************)
InitGif == Init /\ mode_text(Cur) = "GIF"

\* handle_shutter_button in GIF mode, up to the with statement; held: the
\* button is still down when the recording starts
GifStart(failures) ==
    /\ pc = "buttons"
    /\ mode_text(Cur) = "GIF"
    /\ \E sd \in SdCases, held \in BOOLEAN :
          \E exc \in IF is_sd_card_available(sd) THEN {"none"} \cup failures
                     ELSE {"none"} :
             \E s \in {Emit([Cur EXCEPT !.shutter_value = ~held],
                            "shutter_short")} :
                IF is_sd_card_available(sd) /\ exc = "none"
                THEN Becomes(gif_open(Emit(s, "capture:sd_ok")), "gif_loop")
                ELSE Becomes(safe_capture_operation(
                                 s, "capture_animated_gif", sd,
                                 Outcome(exc, IF exc = "none" THEN "none"
                                              ELSE "open")),
                             "navigation")

\* one pass of the loop body
GifFrame(failures) ==
    /\ pc = "gif_loop"
    /\ gif_loop_condition(Cur)
    /\ gif.i < MaxGifFrames
    /\ \E exc \in {"none"} \cup failures :
          IF exc = "none" THEN Becomes(gif_add_frame(Cur), "gif_loop")
          ELSE \E owned \in BOOLEAN :
                  Becomes(gif_frame_raises(Cur, exc, owned), "navigation")

\* the loop condition is false
GifFinish ==
    /\ pc = "gif_loop"
    /\ ~gif_loop_condition(Cur)
    /\ \E owned \in BOOLEAN : Becomes(gif_finish(Cur, owned), "navigation")

\* the user lets go of the shutter button during the recording
ShutterRelease ==
    /\ pc = "gif_loop"
    /\ ~shutter_value
    /\ shutter_value' = TRUE
    /\ UNCHANGED <<pc, gallery_mode, gallery_images, gallery_index,
                   gallery_zoom_level, has_gallery_group, gallery_group,
                   jpeg_decoder, curr_setting, mode, timelapse_rate,
                   timelapse_remaining, timelapse_timestamp, exposure_auto,
                   gain_auto, wb_auto, last_frame, stop_motion_frame, now,
                   listed, log, last_load, result, gif>>

NextGif ==
    \/ CameraModes
    \/ GifStart(Exceptions)
    \/ GifFrame(Exceptions)
    \/ GifFinish
    \/ ShutterRelease

SpecGif == InitGif /\ [][NextGif]_vars

\* the same with frame capture that keeps returning, a loop that keeps
\* running and a user who lets go of the button
NextGifLive ==
    \/ CameraModes
    \/ GifStart({})
    \/ GifFrame({})
    \/ GifFinish
    \/ ShutterRelease

SpecGifLive ==
    /\ InitGif
    /\ [][NextGifLive]_vars
    /\ WF_vars(GifFrame({}))
    /\ WF_vars(GifFinish)
    /\ WF_vars(ShutterRelease)

(***************************************************************************)
(* scan_gallery_images as a function of the directory: the directory is    *)
(* drawn, the scan is applied to it once.                                  *)
(***************************************************************************)
Directories(names) == UNION {Orderings(d) : d \in SUBSET names}

InitScan ==
    /\ Constructed
    /\ gallery_zoom_level = 1
    /\ jpeg_decoder = TRUE
    /\ mode = 0
    /\ timelapse_rate = 0
    /\ listed \in Directories(ScanNames)

ScanGalleryImages ==
    /\ log = <<>>
    /\ \E sd \in SdStatuses, ok \in BOOLEAN :
          Becomes(scan_gallery_images(Cur, sd, Listing(ok, listed)), pc)

SpecScan == InitScan /\ [][ScanGalleryImages]_vars

(***************************************************************************)
(* load_image_file as a function of the zoom level and of the file: the    *)
(* zoom level is drawn, the file is loaded once.                           *)
(***************************************************************************)
InitDecode ==
    /\ Constructed
    /\ gallery_zoom_level \in 1..3
    /\ jpeg_decoder \in BOOLEAN
    /\ mode = 0
    /\ timelapse_rate = 0
    /\ listed = <<>>

\* the smallest picture every scale factor leaves a pixel of
MinDim == scale_factors[Len(scale_factors)]

LoadImageFile ==
    /\ log = <<>>
    /\ \E w \in MinDim..(MinDim + MaxDim), h \in MinDim..(MinDim + MaxDim),
          ok \in BOOLEAN :
          \E content \in {Content("jpeg", ok, w, h, None)} :
             \E loaded \in {load_image_file(Cur, NameEjpg, content)} :
                Becomes(Emit([Cur EXCEPT !.last_load =
                                  Loaded(Cur, NameEjpg, content, loaded.bitmap,
                                         IF loaded.bitmap = None THEN "fallback"
                                         ELSE "raster")],
                             "load_image_file"), pc)

SpecDecode == InitDecode /\ [][LoadImageFile]_vars

(***************************************************************************)
(* Properties.                                                             *)
(***************************************************************************)
Did(event) == event \in Range(log)

\* C1 as stated: a JPEG of W x H that decodes, loaded at zoom level z, gives a
\* raster of floor(W/d) x floor(H/d) with d = 1, 2, 4 for z = 1, 2, 3
StatedDivisor(z) == CASE z = 1 -> 1 [] z = 2 -> 2 [] z = 3 -> 4

C1_RasterByStatedMapping ==
    last_load.shown = "raster" =>
        last_load.bitmap =
            Some(Bitmap(last_load.native[1] \div StatedDivisor(last_load.zoom),
                        last_load.native[2] \div StatedDivisor(last_load.zoom)))

\* C1: a JPEG of W x H that decodes, loaded at zoom level z, gives a raster of
\* floor(W/d) x floor(H/d) with d = 2, 4, 8 for z = 1, 2, 3: half the native
\* size at zoom level 1, an eighth at zoom level 3
HalvingDivisor(z) == CASE z = 1 -> 2 [] z = 2 -> 4 [] z = 3 -> 8

C1_RasterByHalving ==
    /\ last_load.shown = "raster" =>
          last_load.bitmap =
              Some(Bitmap(last_load.native[1] \div HalvingDivisor(last_load.zoom),
                          last_load.native[2] \div HalvingDivisor(last_load.zoom)))
    /\ (last_load.shown = "raster" /\ last_load.zoom = 1) =>
          last_load.bitmap = Some(Bitmap(last_load.native[1] \div 2,
                                         last_load.native[2] \div 2))
    /\ (last_load.shown = "raster" /\ last_load.zoom = 3) =>
          last_load.bitmap = Some(Bitmap(last_load.native[1] \div 8,
                                         last_load.native[2] \div 8))

C1_LoadedAtEveryZoom ==
    /\ last_load.shown = "raster"
    /\ last_load.zoom = 3
    /\ last_load.native = <<16, 9>>
    /\ last_load.bitmap = Some(Bitmap(2, 1))

\* C2 as stated: a short press of the shutter in STOP mode with the storage
\* unavailable returns failure, writes no file, shows "Preview Only" and
\* leaves the last-frame buffer as it was before the press
C2_StopMotionPressLeavesLastFrame ==
    [][(/\ pc = "buttons"
        /\ mode_text(Cur) = "STOP"
        /\ "shutter_short" \in Range(log')
        /\ "capture:no_sd" \in Range(log'))
       => (/\ result' = "False"
           /\ "file_open" \notin Range(log')
           /\ "file_write" \notin Range(log')
           /\ "msg:Preview Only" \in Range(log')
           /\ last_frame' = last_frame)]_vars

\* C3: on every capture path (the four shutter handlers and the scheduled
\* timelapse capture), when the storage is unavailable no file is opened or
\* written and "Preview Only" is shown; a file is opened only after the
\* storage check answered yes
C3_NoFileWithoutStorage ==
    /\ Did("capture:no_sd") =>
          /\ ~Did("file_open")
          /\ ~Did("file_write")
          /\ Did("msg:Preview Only")
          /\ result = "False"
    /\ (Did("file_open") \/ Did("file_write")) => Did("capture:sd_ok")

C3_TimelapseFiresWithoutStorage ==
    /\ Did("timelapse_fire")
    /\ Did("capture:no_sd")
    /\ Did("msg:Preview Only")

\* C4: entering the gallery when the scan finds no eligible file (also when
\* there is no storage) leaves the gallery inactive in the same handler, and
\* an active gallery always has a non-empty list
C4_ActiveGalleryIsNotEmpty ==
    /\ gallery_mode => Len(gallery_images) > 0
    /\ (Did("enter_gallery") /\ Len(gallery_images) = 0) =>
          (~gallery_mode /\ Did("msg:No Photos") /\ Did("exit_gallery"))

C4_EnteredWithoutStorage ==
    /\ Did("enter_gallery")
    /\ Did("scan:no_sd")
    /\ Did("msg:No Photos")
    /\ ~gallery_mode

\* C5: whenever the gallery is active and its list is not empty,
\* 0 <= gallery_index < len(gallery_images)
C5_IndexInRange ==
    (gallery_mode /\ Len(gallery_images) > 0) =>
        (0 <= gallery_index /\ gallery_index < Len(gallery_images))

C5_WrappedBelowZero ==
    /\ gallery_mode
    /\ Did("navigate:-1")
    /\ ~Did("navigate:+1")
    /\ Len(gallery_images) = 3
    /\ gallery_index = 2

\* C6: gallery_navigate(d), d in {-1, +1}, sets the index to
\* (index + d) mod len(gallery_images), and len(gallery_images) navigations in
\* one direction bring the index back to where it started
RECURSIVE Navigations(_, _, _)
Navigations(s, direction, n) ==
    IF n = 0 THEN s
    ELSE Navigations(gallery_navigate(s, direction), direction, n - 1)

C6_NavigateIsModular ==
    Len(gallery_images) > 0 =>
        \A direction \in {-1, 1} :
           /\ gallery_navigate(Cur, direction).gallery_index =
                 (gallery_index + direction) % Len(gallery_images)
           /\ Navigations(Cur, direction, Len(gallery_images)).gallery_index =
                 gallery_index

C6_WrappedPastTheEnd ==
    /\ gallery_mode
    /\ Did("navigate:+1")
    /\ ~Did("navigate:-1")
    /\ Len(gallery_images) = 3
    /\ gallery_index = 0

\* C7: the zoom level stays in 1..3; gallery_zoom_in then gallery_zoom_out
\* gives the level back, and so does gallery_zoom_out then gallery_zoom_in,
\* except when the first of the two does nothing at its bound (zoom in at 1,
\* zoom out at 3): then only the second changes the level
C7_ZoomBoundedAndInverse ==
    /\ gallery_zoom_level \in 1..3
    /\ gallery_zoom_out(gallery_zoom_in(Cur)).gallery_zoom_level =
          (IF gallery_zoom_level = 1 THEN 2 ELSE gallery_zoom_level)
    /\ gallery_zoom_in(gallery_zoom_out(Cur)).gallery_zoom_level =
          (IF gallery_zoom_level = 3 THEN 2 ELSE gallery_zoom_level)
    /\ gallery_zoom_in(Cur).gallery_zoom_level =
          (IF gallery_zoom_level = 1 THEN 1 ELSE gallery_zoom_level - 1)
    /\ gallery_zoom_out(Cur).gallery_zoom_level =
          (IF gallery_zoom_level = 3 THEN 3 ELSE gallery_zoom_level + 1)

C7_ZoomedInAndBackOut ==
    /\ gallery_mode
    /\ Did("zoom_in")
    /\ Did("zoom_out")
    /\ gallery_zoom_level = 3

\* C8: a file that cannot be decoded raises nothing past load_image_file at
\* any zoom level: there is no raster, display_current_image shows the
\* fallback for that file, main() goes on and the gallery stays active
Undecodable(filename) ==
    \/ ~FileContent(filename).ok
    \/ FileContent(filename).format = "other"
    \/ (FileContent(filename).format = "jpeg" /\ ~jpeg_decoder)

C8_UndecodableFileFallsBack ==
    /\ last_load.shown # "raised"
    /\ (last_load.file # <<>> /\ Undecodable(last_load.file)) =>
          /\ last_load.shown = "fallback"
          /\ last_load.bitmap = None
          /\ Did("render:fallback") \/ Did("render:fallback_no_info")
          /\ pc # "crashed"
          /\ ~Did("exit_gallery") => gallery_mode

C8_CorruptFileShown ==
    /\ last_load.file = NameCjpeg
    /\ jpeg_decoder
    /\ last_load.zoom = 3
    /\ last_load.shown = "fallback"
    /\ gallery_mode
    /\ pc = "loop"

\* C9: exposure, gain and white balance are locked exactly when the timelapse
\* runs and automatic exactly when it is stopped; after a start and a stop the
\* three are automatic as before the start
C9_LockedExactlyWhenRunning ==
    /\ timelapse_remaining # None <=>
          (~exposure_auto /\ ~gain_auto /\ ~wb_auto)
    /\ timelapse_remaining = None <=>
          (exposure_auto /\ gain_auto /\ wb_auto)

C9_StoppedAfterRunning ==
    /\ Did("timelapse_stop")
    /\ timelapse_remaining = None
    /\ exposure_auto /\ gain_auto /\ wb_auto

\* C10: scan_gallery_images gives exactly the names of the directory that end,
\* lower-cased, in .jpg, .jpeg or .gif, each once, in ascending code-point
\* order, in their original case; {a.gif, B.JPG, c.jpeg, d.txt, e.jpg} gives
\* [B.JPG, a.gif, c.jpeg, e.jpg]
ImagesInOrder == <<NameDotGIF, NameBJPG, NameAgif, NameCjpeg, NameEjpg>>

InDirectory(filename) == filename \in Range(listed)

C10_ScanFiltersAndSorts ==
    /\ Did("scan") => gallery_images = SelectSeq(ImagesInOrder, InDirectory)
    /\ (Did("scan") /\ Range(listed) =
            {NameAgif, NameBJPG, NameCjpeg, NameDtxt, NameEjpg}) =>
          gallery_images = <<NameBJPG, NameAgif, NameCjpeg, NameEjpg>>

C10_ScannedTheExample ==
    /\ Did("scan")
    /\ listed = <<NameEjpg, NameDtxt, NameCjpeg, NameBJPG, NameAgif>>
    /\ gallery_images = <<NameBJPG, NameAgif, NameCjpeg, NameEjpg>>

\* C11: a recording has at least 15 frames even when the button is let go
\* earlier; the loop ends at the first pass boundary with 15 frames or more
\* and the button up; every frame is appended to the writer and shown, in
\* capture order; the file is closed exactly once, after the loop
CaptureOrder(n) == [k \in 1..n |-> k]

C11_RecordingRunsToTheMinimum ==
    /\ gif.file # "none" =>
          /\ gif.frames = CaptureOrder(Len(gif.frames))
          /\ gif.blitted = gif.frames
    /\ pc = "gif_loop" =>
          /\ gif.i = Len(gif.frames)
          /\ gif.closes = 0
          /\ (gif.i >= MinFrames /\ shutter_value) => ~gif_loop_condition(Cur)
          /\ (gif.i < MinFrames \/ ~shutter_value) => gif_loop_condition(Cur)
    /\ Did("file_close") =>
          /\ gif.i >= MinFrames
          /\ shutter_value
          /\ Len(gif.frames) = gif.i
          /\ gif.closes = 1
          /\ gif.file = "closed"
          /\ result = "True"

C11_RecordedTheMinimum ==
    /\ Did("file_close")
    /\ gif.i = MinFrames
    /\ gif.frames = CaptureOrder(MinFrames)
    /\ gif.closes = 1

\* C12: with frame capture that keeps returning and a button that is let go
\* at some time, a recording that has started comes to its end and
\* handle_shutter_button returns to the main loop
C12_RecordingEnds == (pc = "gif_loop") ~> (pc = "navigation")

C12_EndedAfterLateRelease ==
    /\ pc = "navigation"
    /\ Did("file_close")
    /\ gif.i = MaxGifFrames
    /\ shutter_value

\* C13 as stated: when a recording ends, normally or by a failure of a frame
\* capture or write, the file has been closed and the mode label is back from
\* "RECORDING"
C13_RecordingLeavesNothingOpen ==
    (pc # "gif_loop" /\ gif.file # "none") =>
        (gif.file = "closed" /\ gif.label # "RECORDING")

\* C14: starting the timelapse sets the fire time to now + interval + 1; a
\* pass of handle_camera_modes attempts a capture exactly when the mode is
\* LAPS, the timelapse runs and now >= fire time; when the handler returns
\* from that attempt the fire time is now + interval + 1 again; a pass
\* without an attempt opens no file and leaves the fire time alone
Interval == timelapse_rates[timelapse_rate + 1]

Due ==
    /\ mode_text(Cur) = "LAPS"
    /\ timelapse_remaining # None
    /\ now >= timelapse_timestamp[1]

C14_FiresExactlyWhenDue ==
    [][/\ (pc = "ok" /\ "timelapse_start" \in Range(log')) =>
             /\ timelapse_timestamp' = Some(now + Interval + 1)
             /\ timelapse_remaining' = Some(Interval)
       /\ (pc = "loop" /\ pc' # "loop") =>
             /\ ("timelapse_fire" \in Range(log')) <=> Due
             /\ ("capture:sd_ok" \in Range(log')
                    \/ "capture:no_sd" \in Range(log')) <=> Due
             /\ (Due /\ pc' = "buttons") =>
                    timelapse_timestamp' = Some(now' + Interval + 1)
             /\ ~Due => /\ "file_open" \notin Range(log')
                        /\ timelapse_timestamp' = timelapse_timestamp]_vars

C14_FiredAndRescheduled ==
    /\ Did("timelapse_fire")
    /\ Did("file_write")
    /\ pc = "buttons"
    /\ now = MaxTime
    /\ timelapse_timestamp = Some(now + Interval + 1)

\* C15 as stated: a scheduled capture that fails, by an error of the capture
\* or for want of storage, shows a status message, leaves the timelapse
\* running and sets the fire time to now + interval + 1
C15_FailedFireIsRescheduled ==
    [][(/\ pc = "loop"
        /\ pc' # "loop"
        /\ "timelapse_fire" \in Range(log')
        /\ result' # "None")
       => (/\ \/ "msg:Failed" \in Range(log')
              \/ "msg:Preview Only" \in Range(log')
           /\ timelapse_remaining' # None
           /\ timelapse_timestamp' = Some(now' + Interval + 1)
           /\ pc' = "buttons")]_vars

\* C16: exit_gallery_mode leaves the gallery inactive with an empty list,
\* index 0 and no overlay group, raises nothing, and does the same when it is
\* called on an inactive gallery or twice in a row
Session(s) ==
    [gallery_mode |-> s.gallery_mode, gallery_images |-> s.gallery_images,
     gallery_index |-> s.gallery_index,
     gallery_zoom_level |-> s.gallery_zoom_level,
     has_gallery_group |-> s.has_gallery_group,
     gallery_group |-> s.gallery_group, fault |-> s.fault]

Exited(s) ==
    /\ ~s.gallery_mode
    /\ s.gallery_images = <<>>
    /\ s.gallery_index = 0
    /\ ~s.has_gallery_group
    /\ s.gallery_group = <<>>
    /\ ~s.fault

Exits == {k \in DOMAIN log : log[k] = "exit_gallery"}

C16_ExitIsIdempotent ==
    /\ Exited(exit_gallery_mode(Cur))
    /\ Session(exit_gallery_mode(exit_gallery_mode(Cur))) =
          Session(exit_gallery_mode(Cur))
    /\ ~gallery_mode => Session(exit_gallery_mode(Cur)) =
                           [Session(Cur) EXCEPT !.gallery_images = <<>>,
                                                !.gallery_index = 0,
                                                !.has_gallery_group = FALSE,
                                                !.gallery_group = <<>>]
    /\ Exits # {} => Exited(Cur)

C16_ExitedTwiceInARow ==
    /\ Cardinality(Exits) = 2
    /\ Did("gallery:sd_ok")
    /\ Exited(Cur)

\* C17: when the storage is unavailable as handle_gallery_buttons runs, the
\* gallery is left with the notice and nothing is navigated, zoomed or
\* decoded, whichever buttons are pressed
KeysServed(s, sd, pressed) ==
    handle_gallery_buttons(s, sd, "left" \in pressed, "right" \in pressed,
                           "select" \in pressed, "short_count" \in pressed,
                           "up" \in pressed, "down" \in pressed)

C17_StorageLossForcesExit ==
    /\ Did("gallery:no_sd") =>
          /\ log = <<"gallery:no_sd", "msg:SD Card Removed", "exit_gallery",
                     "msg:Camera Mode">>
          /\ Exited(Cur)
          /\ last_load = NoLoad
    /\ (pc = "loop" /\ gallery_mode) =>
          \A sd \in {x \in SdStatuses : ~is_sd_card_available(x)} :
             \A pressed \in SUBSET GalleryKeys :
                KeysServed(Cur, sd, pressed) = KeysServed(Cur, sd, {})

C17_StorageLostWhileBrowsing ==
    /\ Did("gallery:no_sd")
    /\ Did("msg:SD Card Removed")
    /\ ~gallery_mode
    /\ gallery_zoom_level = 3

\* C18: with the gallery active and the storage available, a pass of
\* handle_gallery_buttons with Select or a short shutter press ends with the
\* gallery inactive, in every capture mode the gallery can be active in
C18_SelectOrShutterExits ==
    /\ gallery_mode => mode_text(Cur) # "LAPS"
    /\ (pc = "loop" /\ gallery_mode) =>
          \A sd \in {x \in SdStatuses : is_sd_card_available(x)} :
             \A pressed \in SUBSET GalleryKeys :
                ("select" \in pressed \/ "short_count" \in pressed) =>
                    ~KeysServed(Cur, sd, pressed).gallery_mode
    /\ (Did("gallery:sd_ok") /\ Did("SEL")) => ~gallery_mode

C18_ExitedBySelect ==
    /\ Did("gallery:sd_ok")
    /\ Did("SEL")
    /\ Cardinality(Exits) = 1
    /\ ~gallery_mode
    /\ mode_text(Cur) = "GBOY"

\* C19 as stated: a press of Select with the gallery inactive runs
\* enter_gallery_mode (the storage is scanned and the gallery becomes active
\* if there is an eligible file) in every capture mode
Scanned == {"scan", "scan:no_sd", "scan:error"}

C19_SelectEntersInEveryMode ==
    [][(pc = "select" /\ "SEL" \in Range(log'))
       => (/\ "enter_gallery" \in Range(log')
           /\ Range(log') \cap Scanned # {}
           /\ gallery_mode' <=> Len(gallery_images') > 0)]_vars

\* C19: a press of Select with the gallery inactive runs enter_gallery_mode
\* (the storage is scanned and the gallery becomes active if there is an
\* eligible file) in every capture mode but LAPS; in LAPS mode it steps the
\* timelapse submode and the gallery stays inactive
C19_SelectEntersButInLaps ==
    [][(pc = "select" /\ "SEL" \in Range(log'))
       => IF mode_text(Cur) # "LAPS"
          THEN /\ "enter_gallery" \in Range(log')
               /\ Range(log') \cap Scanned # {}
               /\ gallery_mode' <=> Len(gallery_images') > 0
          ELSE /\ "timelapse_submode" \in Range(log')
               /\ "enter_gallery" \notin Range(log')
               /\ Range(log') \cap Scanned = {}
               /\ ~gallery_mode']_vars

C19_EnteredFromStopMotion ==
    /\ pc = "ok"
    /\ Did("SEL")
    /\ Did("enter_gallery")
    /\ Did("scan")
    /\ gallery_mode
    /\ Len(gallery_images) = 3
    /\ mode_text(Cur) = "STOP"

\* C20: the buttons of a pass of the main loop go to one side only: with the
\* gallery active at handle_all_buttons they are served by
\* handle_gallery_buttons alone, otherwise by the four camera handlers alone;
\* no pass both navigates or zooms the gallery and captures or changes a
\* setting
GalleryEvents ==
    {"gallery:sd_ok", "gallery:no_sd", "navigate:-1", "navigate:+1",
     "zoom_in", "zoom_out"}

CameraEvents ==
    {"shutter_short", "autofocus", "capture:sd_ok", "capture:no_sd",
     "file_open", "select_setting", "set:mode", "set:timelapse_rate",
     "set:other", "timelapse_start", "timelapse_stop", "msg:battery",
     "timelapse_submode", "enter_gallery"}

CameraPositions == {"buttons", "navigation", "select", "ok"}

SettingsServed(s, pressed) ==
    handle_navigation_buttons(s, "up" \in pressed, "down" \in pressed,
                              "right" \in pressed, "left" \in pressed)

C20_OneSidePerPass ==
    /\ [][/\ (pc = "loop" /\ gallery_mode) =>
                /\ pc' \in {"loop", "sd_card"}
                /\ Range(log') \cap CameraEvents = {}
          /\ (pc = "loop" /\ ~gallery_mode) =>
                /\ pc' \in {"buttons", "crashed"}
                /\ Range(log') \cap GalleryEvents = {}
          /\ pc \in CameraPositions =>
                /\ Range(log') \cap GalleryEvents = {}
                /\ pc' \in CameraPositions \cup {"loop", "sd_card", "crashed"}
          /\ Range(log') \cap GalleryEvents # {} => (pc = "loop" /\ gallery_mode)
         ]_vars
    /\ [](pc \in {"buttons", "navigation", "select"} => ~gallery_mode)
    /\ [](pc = "navigation" =>
             \A pressed \in SUBSET NavKeys :
                /\ Range(SettingsServed(Cur, pressed).log) \cap GalleryEvents = {}
                /\ Session(SettingsServed(Cur, pressed)) = Session(Cur))

C20_BrowsedThenCaptured ==
    /\ pc = "navigation"
    /\ Did("shutter_short")
    /\ Did("file_write")
    /\ ~gallery_mode
    /\ gallery_zoom_level = 3

\* C21 as stated: after a navigation or a zoom the overlay group holds at
\* most one decoded image and what it holds is the decode of
\* gallery_images[gallery_index]; when the decode of the newly selected file
\* fails, the image decoded before is no longer held
Navigated == Did("navigate:-1") \/ Did("navigate:+1")

Zoomed == Did("zoom_in") \/ Did("zoom_out")

C21_OverlayHoldsTheCurrentImage ==
    (gallery_mode /\ Len(gallery_images) > 0 /\ (Navigated \/ Zoomed)) =>
        /\ Len(gallery_group) <= 1
        /\ \A k \in DOMAIN gallery_group :
              gallery_group[k].file = gallery_images[gallery_index + 1]
        /\ last_load.shown = "fallback" => gallery_group = <<>>

\* C22 as stated: every failure of a capture function run through
\* safe_capture_operation, of whatever kind, gives the result False with the
\* "Failed" status, and none leaves safe_capture_operation as an exception:
\* main() always goes on to the next pass
C22_EveryCaptureFailureIsReported ==
    /\ pc # "crashed"
    /\ (Did("capture:sd_ok") /\ ~Did("msg:Saved!")) =>
          (Did("msg:Failed") /\ result = "False")

\* C23: whatever Up, Down, Left and Right presses the camera handlers have
\* served, outside LAPS mode the selected setting is not timelapse_rate, also
\* after the mode was changed through the mode setting
C23_TimelapseRateOnlyInLaps ==
    /\ mode_text(Cur) # "LAPS" => SETTINGS[curr_setting + 1] # "timelapse_rate"
    /\ pc = "navigation" =>
          \A pressed \in SUBSET NavKeys :
             mode_text(SettingsServed(Cur, pressed)) # "LAPS" =>
                 SETTINGS[SettingsServed(Cur, pressed).curr_setting + 1]
                     # "timelapse_rate"

C23_LeftTheModeSetting ==
    /\ Did("set:mode")
    /\ Did("select_setting")
    /\ mode_text(Cur) = "JPEG"
    /\ SETTINGS[curr_setting + 1] = "led_level"

\* C25 as stated: the timelapse runs only in LAPS mode: in every other mode
\* timelapse_remaining is None and exposure, gain and white balance are
\* automatic
C25_RunningOnlyInLaps ==
    mode_text(Cur) # "LAPS" =>
        /\ timelapse_remaining = None
        /\ exposure_auto /\ gain_auto /\ wb_auto

\* C26 as stated: once the gallery has been left during a pass (by Select, a
\* short shutter press or the loss of the storage), the remaining buttons of
\* that pass do nothing to the gallery: the zoom level is not changed and
\* nothing is rendered (no image, no "No Image")
GalleryActs ==
    {"navigate:-1", "navigate:+1", "zoom_in", "zoom_out", "msg:No Image",
     "render:image", "render:fallback", "render:fallback_no_info"}

C26_NothingAfterTheExit ==
    \A k \in Exits : \A j \in DOMAIN log : j > k => log[j] \notin GalleryActs

====
